---- MODULE Spec2Model ----
(***************************************************************************)
(* Model of ticket_assist.py: the detect -> translate-if-needed -> analyze *)
(* pipeline of main(), the two Model Client operations, the detector       *)
(* wrapper and the document assembler.                                     *)
(*                                                                         *)
(* Text is a sequence of characters.  A fixed literal of the source is a   *)
(* one-element sequence holding a token that stands for the literal (the   *)
(* Chinese literals are written in ASCII transliteration).                 *)
(***************************************************************************)
EXTENDS Integers, Sequences, FiniteSets, TLC

VARIABLES
    API_KEY,          \* module global, line 21
    DEFAULT_MODEL,    \* module global, line 18
    openai_api_key,   \* the Model Client's global setting openai.api_key
    inputFile,        \* raw content of the file at args.input
    outputFile,       \* content of the file at args.output, or Absent
    pc,               \* position of main()
    original_text,    \* locals of main()
    lang,
    chinese_text,
    analysis,
    output_md,
    error,            \* the exception that ended the run, or "none"
    detectRaised,     \* whether langdetect.detect raised inside detect_language
    calls,            \* log of invocations: <<[fn, arg]>>
    returns,          \* log of normal returns: <<[fn, value]>>
    requests          \* log of ChatCompletion.create requests issued

vars == << API_KEY, DEFAULT_MODEL, openai_api_key, inputFile, outputFile, pc,
           original_text, lang, chinese_text, analysis, output_md, error,
           detectRaised, calls, returns, requests >>

-----------------------------------------------------------------------------
(* Bounds *)

\* longest raw input file content
MaxLen == 3

\* longest raw response body of the Model Client
MaxRespLen == 2

\* longest content slot handed to build_output on its own
MaxSlotLen == 2

-----------------------------------------------------------------------------
(* Values *)

SP == " "
NL == "\n"

Whitespace == {SP, NL, "\t"}

\* characters of input files and model responses
Chars == {SP, "a"}

\* characters of the content slots handed to build_output on its own
SlotChars == {"a", NL}

\* the texts over an alphabet, up to a length
RECURSIVE StrOver(_, _)
StrOver(alphabet, n) ==
    IF n = 0 THEN { <<>> }
    ELSE LET S == StrOver(alphabet, n - 1)
         IN  S \cup { Append(s, c) : s \in { t \in S : Len(t) = n - 1 }, c \in alphabet }

StrUpTo(n) == StrOver(Chars, n)

\* Python None
None == "<None>"

\* a local of main() that is not bound yet
Unbound == << "<unbound>" >>

\* the output path holds no file
Absent == << "<absent>" >>

\* values of os.getenv("OPENAI_API_KEY"): unset, empty, set
EnvKeys == {None, "", "sk-A"}

\* a key an embedding program has put into openai.api_key
OtherKey == "sk-B"

\* values of os.getenv("OPENAI_MODEL", "gpt-3.5-turbo")
EnvModels == {"gpt-3.5-turbo", "gpt-4"}

\* tags langdetect.detect can return
DetectorTags == {"en", "ja", "zh", "ko"}

\* outcome of langdetect.detect that stands for a raised exception
DetectorFails == "<LangDetectException>"

-----------------------------------------------------------------------------
(* Pure functions *)

\* str.strip(): drop leading and trailing whitespace
RECURSIVE lstrip(_)
lstrip(s) ==
    IF s = <<>> THEN <<>>
    ELSE IF Head(s) \in Whitespace THEN lstrip(Tail(s)) ELSE s

RECURSIVE rstrip(_)
rstrip(s) ==
    IF s = <<>> THEN <<>>
    ELSE IF s[Len(s)] \in Whitespace THEN rstrip(SubSeq(s, 1, Len(s) - 1)) ELSE s

strip(s) == rstrip(lstrip(s))

\* sep.join(parts)
RECURSIVE join(_, _)
join(sep, parts) ==
    IF parts = <<>> THEN <<>>
    ELSE IF Len(parts) = 1 THEN parts[1]
    ELSE parts[1] \o sep \o join(sep, Tail(parts))

\* literals of build_output (ASCII stands for the Chinese text of the source)
HeaderOriginalOpen == "yuanshi-neirong("
HeaderOriginalClose == ")"
HeaderTranslation == "zhongwen-fanyi"
HeaderAnalysis == "fenxi-jieguo"

\* mutant: the translation section is left out of the document
build_output_dropsTranslation(original, lang_, chinese, analysis_) ==
    join(<<NL>>, << <<HeaderOriginalOpen, lang_, HeaderOriginalClose>>,
                    original,
                    <<>>,
                    <<HeaderAnalysis>>,
                    analysis_ >>)

build_output(original, lang_, chinese, analysis_) ==
    LET sections == << <<HeaderOriginalOpen, lang_, HeaderOriginalClose>>,
                       original,
                       <<>>,
                       <<HeaderTranslation>>,
                       chinese,
                       <<>>,
                       <<HeaderAnalysis>>,
                       analysis_ >>
    IN  join(<<NL>>, sections)

\* mutant: only an unset credential counts as missing
KeyMissing_onlyNone(key) == key = None

\* "not openai.api_key": None and the empty string are falsy
KeyMissing(key) == key = None \/ key = ""

\* mutant: translate whatever is not Chinese
NeedsTranslation_notChinese(tag) == tag # "zh"

\* "lang in ("en", "ja")"
NeedsTranslation(tag) == tag \in {"en", "ja"}

\* outcomes langdetect.detect can have on a text: it raises on a text without
\* features (the empty text among them), else returns a tag
DetectorOutcomes(text) ==
    IF text = <<>> THEN {DetectorFails}
    ELSE DetectorTags \cup {DetectorFails}

\* mutant: the detector's exception propagates
detect_language_propagates(outcome) ==
    IF outcome = DetectorFails
    THEN [raised |-> TRUE, value |-> None]
    ELSE [raised |-> FALSE, value |-> outcome]

\* detect_language: the detector's tag, or "unknown" when it raises
detect_language(outcome) ==
    IF outcome = DetectorFails
    THEN [raised |-> FALSE, value |-> "unknown"]
    ELSE [raised |-> FALSE, value |-> outcome]

\* mutant: a key already present in the client is kept
ClientKeyAssigned_keepsPresent(current, cached) ==
    IF KeyMissing(current) THEN cached ELSE current

\* "openai.api_key = API_KEY": the client's key after the assignment
ClientKeyAssigned(current, cached) == cached

\* the messages of the two requests
TranslateMessages(text) ==
    << [role |-> "system", content |-> <<"You translate English or Japanese to Chinese.">>],
       [role |-> "user", content |-> text] >>

AnalyzePrompt == << "<analysis prompt>" >>

AnalyzeMessages(text) ==
    << [role |-> "system", content |-> <<"You are a technical support analysis assistant.">>],
       [role |-> "user", content |-> AnalyzePrompt \o <<NL, NL>> \o text] >>

-----------------------------------------------------------------------------
(* State machine *)

\* The state once the module is imported.  openai.api_key belongs to the client
\* library: it holds the library's own reading of the same environment
\* variable (the value of API_KEY), or a key that a program importing this
\* module has assigned to it.
Init ==
    /\ API_KEY \in EnvKeys
    /\ DEFAULT_MODEL \in EnvModels
    /\ openai_api_key \in {API_KEY, OtherKey}
    /\ inputFile \in StrUpTo(MaxLen)
    /\ outputFile = Absent
    /\ pc = "read"
    /\ original_text = Unbound
    /\ lang = None
    /\ chinese_text = Unbound
    /\ analysis = Unbound
    /\ output_md = Unbound
    /\ error = "none"
    /\ detectRaised = FALSE
    /\ calls = <<>>
    /\ returns = <<>>
    /\ requests = <<>>

globals == << API_KEY, DEFAULT_MODEL >>

\* mutant: the output file is opened together with the input file
ReadInput_opensOutput ==
    /\ pc = "read"
    /\ original_text' = strip(inputFile)
    /\ outputFile' = <<>>
    /\ pc' = "detect"
    /\ UNCHANGED << globals, openai_api_key, inputFile, lang,
                    chinese_text, analysis, output_md, error, detectRaised,
                    calls, returns, requests >>

\* main, lines 96-97
ReadInput ==
    /\ pc = "read"
    /\ original_text' = strip(inputFile)
    /\ pc' = "detect"
    /\ UNCHANGED << globals, openai_api_key, inputFile, outputFile, lang,
                    chinese_text, analysis, output_md, error, detectRaised,
                    calls, returns, requests >>

\* main, line 99
Detect ==
    /\ pc = "detect"
    /\ \E outcome \in DetectorOutcomes(original_text) :
         LET r == detect_language(outcome) IN
         /\ calls' = Append(calls, [fn |-> "detect_language", arg |-> original_text])
         /\ detectRaised' = (outcome = DetectorFails)
         /\ IF r.raised
            THEN /\ pc' = "failed"
                 /\ error' = "LangDetectException"
                 /\ UNCHANGED << lang, returns >>
            ELSE /\ pc' = "branch"
                 /\ lang' = r.value
                 /\ returns' = Append(returns, [fn |-> "detect_language", value |-> <<r.value>>])
                 /\ UNCHANGED error
    /\ UNCHANGED << globals, openai_api_key, inputFile, outputFile, original_text,
                    chinese_text, analysis, output_md, requests >>

\* main, lines 100-101
Branch ==
    /\ pc = "branch"
    /\ chinese_text' = original_text
    /\ pc' = IF NeedsTranslation(lang) THEN "translate" ELSE "analyze"
    /\ UNCHANGED << globals, openai_api_key, inputFile, outputFile, original_text,
                    lang, analysis, output_md, error, detectRaised, calls,
                    returns, requests >>

Request(fn, text) ==
    [fn |-> fn,
     model |-> DEFAULT_MODEL,
     api_key |-> openai_api_key',
     messages |-> IF fn = "translate_to_chinese"
                  THEN TranslateMessages(text) ELSE AnalyzeMessages(text),
     status |-> "pending"]

\* the last request gets its outcome
Settled(status) ==
    [requests EXCEPT ![Len(requests)].status = status]

\* mutant: the request is issued without waiting for its response
TranslateEnter_async ==
    /\ pc = "translate"
    /\ calls' = Append(calls, [fn |-> "translate_to_chinese", arg |-> original_text])
    /\ openai_api_key' = ClientKeyAssigned(openai_api_key, API_KEY)
    /\ IF KeyMissing(openai_api_key')
       THEN /\ pc' = "failed"
            /\ error' = "ValueError"
            /\ UNCHANGED requests
       ELSE /\ requests' = Append(requests, Request("translate_to_chinese", original_text))
            /\ pc' = "analyze"
            /\ UNCHANGED error
    /\ UNCHANGED << globals, inputFile, outputFile, original_text, lang,
                    chinese_text, analysis, output_md, detectRaised, returns >>

\* translate_to_chinese, lines 34-42 (called at line 102): the credential
\* check, then the request
TranslateEnter ==
    /\ pc = "translate"
    /\ calls' = Append(calls, [fn |-> "translate_to_chinese", arg |-> original_text])
    /\ openai_api_key' = ClientKeyAssigned(openai_api_key, API_KEY)
    /\ IF KeyMissing(openai_api_key')
       THEN /\ pc' = "failed"
            /\ error' = "ValueError"
            /\ UNCHANGED requests
       ELSE /\ requests' = Append(requests, Request("translate_to_chinese", original_text))
            /\ pc' = "translate_wait"
            /\ UNCHANGED error
    /\ UNCHANGED << globals, inputFile, outputFile, original_text, lang,
                    chinese_text, analysis, output_md, detectRaised, returns >>

\* translate_to_chinese, lines 42-43, and the assignment of line 102
TranslateReturn ==
    /\ pc = "translate_wait"
    /\ \E content \in StrUpTo(MaxRespLen) :
         /\ chinese_text' = strip(content)
         /\ returns' = Append(returns, [fn |-> "translate_to_chinese", value |-> strip(content)])
    /\ requests' = Settled("ok")
    /\ pc' = "analyze"
    /\ UNCHANGED << globals, openai_api_key, inputFile, outputFile, original_text,
                    lang, analysis, output_md, error, detectRaised, calls >>

\* mutant: a failed translate request is issued again
TranslateProviderError_retries ==
    /\ pc = "translate_wait"
    /\ requests' = Settled("error")
    /\ pc' = "translate"
    /\ UNCHANGED << globals, openai_api_key, inputFile, outputFile, original_text,
                    lang, chinese_text, analysis, output_md, error, detectRaised,
                    calls, returns >>

\* line 42 raises: nothing in translate_to_chinese or main catches it
TranslateProviderError ==
    /\ pc = "translate_wait"
    /\ requests' = Settled("error")
    /\ pc' = "failed"
    /\ error' = "ProviderError"
    /\ UNCHANGED << globals, openai_api_key, inputFile, outputFile, original_text,
                    lang, chinese_text, analysis, output_md, detectRaised, calls,
                    returns >>

\* analyze_ticket, lines 48-71 (called at line 104)
AnalyzeEnter ==
    /\ pc = "analyze"
    /\ calls' = Append(calls, [fn |-> "analyze_ticket", arg |-> chinese_text])
    /\ openai_api_key' = ClientKeyAssigned(openai_api_key, API_KEY)
    /\ IF KeyMissing(openai_api_key')
       THEN /\ pc' = "failed"
            /\ error' = "ValueError"
            /\ UNCHANGED requests
       ELSE /\ requests' = Append(requests, Request("analyze_ticket", chinese_text))
            /\ pc' = "analyze_wait"
            /\ UNCHANGED error
    /\ UNCHANGED << globals, inputFile, outputFile, original_text, lang,
                    chinese_text, analysis, output_md, detectRaised, returns >>

\* analyze_ticket, lines 71-72, and the assignment of line 104
AnalyzeReturn ==
    /\ pc = "analyze_wait"
    /\ \E content \in StrUpTo(MaxRespLen) :
         /\ analysis' = strip(content)
         /\ returns' = Append(returns, [fn |-> "analyze_ticket", value |-> strip(content)])
    /\ requests' = Settled("ok")
    /\ pc' = "build"
    /\ UNCHANGED << globals, openai_api_key, inputFile, outputFile, original_text,
                    lang, chinese_text, output_md, error, detectRaised, calls >>

\* line 71 raises: nothing in analyze_ticket or main catches it
AnalyzeProviderError ==
    /\ pc = "analyze_wait"
    /\ requests' = Settled("error")
    /\ pc' = "failed"
    /\ error' = "ProviderError"
    /\ UNCHANGED << globals, openai_api_key, inputFile, outputFile, original_text,
                    lang, chinese_text, analysis, output_md, detectRaised, calls,
                    returns >>

\* mutant: the working Chinese text is passed as the original
BuildOutput_passesChineseAsOriginal ==
    /\ pc = "build"
    /\ output_md' = build_output(chinese_text, lang, chinese_text, analysis)
    /\ pc' = "open"
    /\ UNCHANGED << globals, openai_api_key, inputFile, outputFile, original_text,
                    lang, chinese_text, analysis, error, detectRaised, calls,
                    returns, requests >>

\* main, line 105
BuildOutput ==
    /\ pc = "build"
    /\ output_md' = build_output(original_text, lang, chinese_text, analysis)
    /\ pc' = "open"
    /\ UNCHANGED << globals, openai_api_key, inputFile, outputFile, original_text,
                    lang, chinese_text, analysis, error, detectRaised, calls,
                    returns, requests >>

\* main, line 107: open(args.output, "w") creates or truncates the file
OpenOutput ==
    /\ pc = "open"
    /\ outputFile' = <<>>
    /\ pc' = "write"
    /\ UNCHANGED << globals, openai_api_key, inputFile, original_text, lang,
                    chinese_text, analysis, output_md, error, detectRaised,
                    calls, returns, requests >>

\* main, line 108, and the close at the end of the with block
WriteOutput ==
    /\ pc = "write"
    /\ outputFile' = output_md
    /\ pc' = "done"
    /\ UNCHANGED << globals, openai_api_key, inputFile, original_text, lang,
                    chinese_text, analysis, output_md, error, detectRaised,
                    calls, returns, requests >>

Next ==
    \/ ReadInput
    \/ Detect
    \/ Branch
    \/ TranslateEnter
    \/ TranslateReturn
    \/ TranslateProviderError
    \/ AnalyzeEnter
    \/ AnalyzeReturn
    \/ AnalyzeProviderError
    \/ BuildOutput
    \/ OpenOutput
    \/ WriteOutput

Spec == Init /\ [][Next]_vars

-----------------------------------------------------------------------------
(* build_output on its own: every combination of content slots *)

InitAssembler ==
    /\ API_KEY = "sk-A"
    /\ DEFAULT_MODEL = "gpt-3.5-turbo"
    /\ openai_api_key = "sk-A"
    /\ inputFile = <<>>
    /\ outputFile = Absent
    /\ pc = "build"
    /\ original_text \in StrOver(SlotChars, MaxSlotLen)
    /\ lang \in DetectorTags \cup {"unknown"}
    /\ chinese_text \in StrOver(SlotChars, MaxSlotLen)
    /\ analysis \in StrOver(SlotChars, MaxSlotLen)
    /\ output_md = Unbound
    /\ error = "none"
    /\ detectRaised = FALSE
    /\ calls = <<>>
    /\ returns = <<>>
    /\ requests = <<>>

NextAssembler == BuildOutput

SpecAssembler == InitAssembler /\ [][NextAssembler]_vars

-----------------------------------------------------------------------------
(* Properties *)

CallsOf(fn) == SelectSeq(calls, LAMBDA c : c.fn = fn)
ReturnsOf(fn) == SelectSeq(returns, LAMBDA r : r.fn = fn)
RequestsOf(fn) == SelectSeq(requests, LAMBDA r : r.fn = fn)
RequestsIn(status) == SelectSeq(requests, LAMBDA r : r.status = status)

\* the trimmed ticket text that enters the pipeline
TicketText == strip(inputFile)

\* the document layout, written out character by character
Layout(o, l, c, a) ==
    << HeaderOriginalOpen, l, HeaderOriginalClose, NL >> \o o
       \o << NL, NL, HeaderTranslation, NL >> \o c
       \o << NL, NL, HeaderAnalysis, NL >> \o a

\* C1: with tag "en" or "ja" translate_to_chinese is invoked exactly once, with
\* the original ticket text, and analyze_ticket receives its return value;
\* with any other tag it is never invoked and analyze_ticket receives the
\* original ticket text.
C1_TranslationRule ==
    LET t == CallsOf("translate_to_chinese")
        tr == ReturnsOf("translate_to_chinese")
        a == CallsOf("analyze_ticket")
    IN  /\ Len(t) <= 1
        /\ Len(t) = 1 => t[1].arg = TicketText
        /\ lang \notin {"en", "ja"} => Len(t) = 0
        /\ (lang \in {"en", "ja"} /\ (Len(a) >= 1 \/ pc \in {"done", "failed"}))
              => Len(t) = 1
        /\ Len(a) >= 1 =>
              IF lang \in {"en", "ja"}
              THEN Len(tr) = 1 /\ a[1].arg = tr[1].value
              ELSE a[1].arg = TicketText

C1_Witness ==
    /\ pc = "done"
    /\ lang = "ja"
    /\ Len(ReturnsOf("translate_to_chinese")) = 1
    /\ ReturnsOf("translate_to_chinese")[1].value # TicketText
    /\ CallsOf("analyze_ticket")[1].arg = ReturnsOf("translate_to_chinese")[1].value

\* C2: with the credential unset or empty, whichever of translate_to_chinese
\* and analyze_ticket is reached first fails with the configuration error and
\* no Model Client request is ever issued.
C2_MissingCredentialFailsFast ==
    (API_KEY = None \/ API_KEY = "") =>
        /\ requests = <<>>
        /\ Len(CallsOf("translate_to_chinese")) + Len(CallsOf("analyze_ticket")) <= 1
        /\ (Len(CallsOf("translate_to_chinese")) + Len(CallsOf("analyze_ticket")) = 1)
              => (pc = "failed" /\ error = "ValueError")
        /\ pc \notin {"translate_wait", "analyze_wait", "build", "open", "write", "done"}

C2_Witness ==
    /\ API_KEY = ""
    /\ Len(CallsOf("analyze_ticket")) = 1
    /\ error = "ValueError"
    /\ requests = <<>>

\* C3: the output file is opened or written only after detection, the
\* optional translation, analysis and assembly have all succeeded; a failed
\* run leaves no output file; a finished run's file holds the whole document.
C3_AllOrNothing ==
    /\ outputFile # Absent =>
          /\ pc \in {"write", "done"}
          /\ error = "none"
          /\ Len(ReturnsOf("detect_language")) = 1
          /\ Len(ReturnsOf("analyze_ticket")) = 1
          /\ Len(RequestsIn("ok")) = Len(requests)
          /\ output_md # Unbound
    /\ (pc = "failed" \/ error # "none") => outputFile = Absent
    /\ pc = "done" => (outputFile = output_md /\ output_md # Unbound)

C3_Witness ==
    /\ pc = "failed"
    /\ error = "ProviderError"
    /\ Len(ReturnsOf("translate_to_chinese")) = 1
    /\ outputFile = Absent

\* C4: detect_language never raises; when the underlying detector fails it
\* returns "unknown", and the run goes on without translation to analysis.
C4_DetectionNeverRaises ==
    /\ error # "LangDetectException"
    /\ Len(CallsOf("detect_language")) = Len(ReturnsOf("detect_language"))
    /\ Len(CallsOf("detect_language")) = 1 => lang \in DetectorTags \cup {"unknown"}
    /\ detectRaised =>
          /\ lang = "unknown"
          /\ pc \notin {"read", "detect", "translate", "translate_wait"}
          /\ Len(CallsOf("translate_to_chinese")) = 0
          /\ pc \notin {"branch", "analyze"} =>
                /\ Len(CallsOf("analyze_ticket")) = 1
                /\ CallsOf("analyze_ticket")[1].arg = TicketText

C4_Witness ==
    /\ detectRaised
    /\ TicketText = <<>>
    /\ lang = "unknown"
    /\ pc = "done"

\* C5: at most two Model Client requests per run, at most one of each kind and
\* at most one in flight; the translate request has returned before the
\* analyze request is issued; analyze_ticket is called only after the
\* translation decision; a successful run issues exactly one analyze request.
C5_SequentialCalls ==
    LET t == RequestsOf("translate_to_chinese")
        a == RequestsOf("analyze_ticket")
    IN  /\ Len(requests) <= 2
        /\ Len(t) <= 1
        /\ Len(a) <= 1
        /\ Len(RequestsIn("pending")) <= 1
        /\ Len(a) = 1 =>
              /\ Len(t) = 1 => (t[1].status = "ok" /\ requests[1] = t[1])
              /\ Len(t) = 1 <=> lang \in {"en", "ja"}
        /\ Len(CallsOf("analyze_ticket")) >= 1 =>
              /\ lang # None
              /\ chinese_text # Unbound
              /\ lang \in {"en", "ja"} => Len(ReturnsOf("translate_to_chinese")) = 1
        /\ pc = "done" => (Len(a) = 1 /\ a[1].status = "ok")

C5_Witness ==
    /\ Len(requests) = 2
    /\ requests[1].fn = "translate_to_chinese"
    /\ requests[1].status = "ok"
    /\ requests[2].fn = "analyze_ticket"
    /\ requests[2].status = "pending"

\* C6: a provider error is not retried and not recovered: the run aborts with
\* it, the failed request is the last and only one of its kind, a failed
\* translate is never followed by a call of analyze_ticket, and no output is
\* written.
C6_ProviderErrorAborts ==
    \A i \in 1..Len(requests) :
        requests[i].status = "error" =>
            /\ pc = "failed"
            /\ error = "ProviderError"
            /\ i = Len(requests)
            /\ Len(RequestsOf(requests[i].fn)) = 1
            /\ Len(CallsOf(requests[i].fn)) = 1
            /\ requests[i].fn = "translate_to_chinese"
                  => Len(CallsOf("analyze_ticket")) = 0
            /\ outputFile = Absent

C6_Witness ==
    /\ Len(requests) = 1
    /\ requests[1].fn = "translate_to_chinese"
    /\ requests[1].status = "error"
    /\ pc = "failed"

\* C7: build_output returns the eight blocks joined by newlines in the fixed
\* order header-with-tag, original, empty, translation header, Chinese text,
\* empty, analysis header, analysis, for every content, empty ones included.
C7_EightBlocks ==
    output_md # Unbound =>
        /\ output_md = Layout(original_text, lang, chinese_text, analysis)
        /\ Len(output_md) = 12 + Len(original_text) + Len(chinese_text) + Len(analysis)
        /\ output_md[1] = HeaderOriginalOpen
        /\ output_md[2] = lang
        /\ output_md[7 + Len(original_text)] = HeaderTranslation
        /\ output_md[11 + Len(original_text) + Len(chinese_text)] = HeaderAnalysis

C7_Witness ==
    /\ output_md # Unbound
    /\ original_text = <<>>
    /\ chinese_text = <<"a", NL>>
    /\ analysis = <<>>
    /\ lang = "unknown"

\* C8: detect_language, translate_to_chinese and analyze_ticket are never
\* invoked with an empty ticket text.
C8_NeverEmptyTicketText ==
    \A i \in 1..Len(calls) : calls[i].arg # <<>>

\* C9: in a finished run the document carries the trimmed ticket text, the
\* detected tag, the text that was passed to analyze_ticket and the value
\* analyze_ticket returned; without translation the translation slot is the
\* ticket text itself.
C9_SlotsFaithful ==
    pc = "done" =>
        LET d == ReturnsOf("detect_language")
            a == CallsOf("analyze_ticket")
            ar == ReturnsOf("analyze_ticket")
        IN  /\ Len(d) = 1 /\ Len(a) = 1 /\ Len(ar) = 1
            /\ original_text = TicketText
            /\ outputFile = Layout(TicketText, d[1].value[1], a[1].arg, ar[1].value)
            /\ d[1].value[1] \notin {"en", "ja"} =>
                  outputFile = Layout(TicketText, d[1].value[1], TicketText, ar[1].value)

C9_Witness ==
    /\ pc = "done"
    /\ lang = "en"
    /\ ReturnsOf("translate_to_chinese")[1].value # TicketText
    /\ TicketText # <<>>
    /\ ReturnsOf("analyze_ticket")[1].value # <<>>

\* C10 as stated: no process-wide variable is written by any step of a run.
C10_NoGlobalWritten ==
    [][/\ API_KEY' = API_KEY
       /\ DEFAULT_MODEL' = DEFAULT_MODEL
       /\ openai_api_key' = openai_api_key]_vars

\* C10 as amended: API_KEY and DEFAULT_MODEL are never written; the one global
\* written is openai.api_key, which each call of translate_to_chinese and
\* analyze_ticket sets to API_KEY before it is read, so every request carries
\* API_KEY and DEFAULT_MODEL and the credential check depends on API_KEY alone.
C10_OnlyClientKeyWritten ==
    [][/\ API_KEY' = API_KEY
       /\ DEFAULT_MODEL' = DEFAULT_MODEL
       /\ openai_api_key' # openai_api_key => openai_api_key' = API_KEY
       /\ Len(calls') > Len(calls) /\ calls'[Len(calls')].fn # "detect_language"
             => openai_api_key' = API_KEY
       /\ Len(requests') > Len(requests) =>
             /\ requests'[Len(requests')].api_key = API_KEY
             /\ requests'[Len(requests')].model = DEFAULT_MODEL
       /\ (error = "none" /\ error' = "ValueError")
             <=> (/\ Len(calls') > Len(calls)
                  /\ calls'[Len(calls')].fn # "detect_language"
                  /\ (API_KEY = None \/ API_KEY = ""))]_vars

C10_Witness ==
    /\ Len(requests) = 2
    /\ openai_api_key = API_KEY
    /\ requests[1].api_key = API_KEY
    /\ requests[2].api_key = API_KEY
    /\ pc = "done"

====
